---- MODULE Spec2Model ----
(***************************************************************************)
(* A model of pl-utils: the PlanetLab XML-RPC helper (plc.py) and the     *)
(* node-selection pipeline built on it (populate-slice.py).               *)
(*                                                                         *)
(* Instants (Python datetime values) are integers counting ticks since    *)
(* UNIX_EPOCH, TicksPerSec ticks to the second; the remote service's      *)
(* numeric timestamps are whole seconds.  A Python value that may be None *)
(* is a sequence: <<>> for None, <<v>> for the value v.                   *)
(***************************************************************************)
EXTENDS Integers, Sequences, FiniteSets, TLC

\* ------------------------------------------------------------ bounds
\* Longest node inventory the remote service returns.
MaxNodes == 2
\* Largest numeric timestamp (seconds) a node record carries.
MaxTime == 1
\* Sub-second resolution of an instant (ticks per second).
TicksPerSec == 2
\* Most records a GetSlices response holds.
MaxMatches == 2
\* How far (ticks) the renewal targets lie from either end of the last day
\* before the renewal ceiling, and the latest instant of "today".
MaxSlack == 2

\* ------------------------------------------------- program constants
\* RENEWAL_CAP = td(weeks=8), in seconds.
RENEWAL_CAP == 4838400
\* RENEWAL_RESOL = td(days=1), in seconds.
RENEWAL_RESOL == 86400
\* UNIX_EPOCH = dt(1970, 1, 1), the origin of the instants.
UNIX_EPOCH == 0
\* NUM_NPS, the default number of nodes selected per site.
NUM_NPS == 2
\* The fault code check_auth singles out.
AUTH_FAULT == 103

\* ------------------------------------------------------ Python values
None == <<>>
Some(v) == <<v>>

\* int(x) of the quotient a / b, b > 0: truncation toward zero.
IntTrunc(a, b) == IF a >= 0 THEN a \div b ELSE -((-a) \div b)

\* seq[:k], Python's slice: a negative k counts from the end.
Slice_upto(seq, k) ==
    LET n == IF k >= 0 THEN (IF k < Len(seq) THEN k ELSE Len(seq))
             ELSE (IF Len(seq) + k > 0 THEN Len(seq) + k ELSE 0)
    IN  SubSeq(seq, 1, n)

\* The orderings random.shuffle can leave a list in.
Shuffles(seq) ==
    { [i \in 1..Len(seq) |-> seq[p[i]]] :
        p \in { q \in [1..Len(seq) -> 1..Len(seq)] :
                  \A i, j \in 1..Len(seq) : i # j => q[i] # q[j] } }

\* ------------------------------------------------------- time utility
\* dt.utcfromtimestamp(secs): the instant secs seconds after the epoch.
utcfromtimestamp(secs) == UNIX_EPOCH + secs * TicksPerSec

\* int(to_unix_time(ts)): whole seconds since the epoch, fraction cut.
int_to_unix_time(ts) == IntTrunc(ts - UNIX_EPOCH, TicksPerSec)

\* renew_upto(): today plus RENEWAL_CAP.
renew_upto(today) == today + RENEWAL_CAP * TicksPerSec

\* ------------------------------------------------------- domain model
\* The keys a Slice is built from (SLICE_ATTRIBS.values()).
SLICE_ATTRIBS ==
    { "name", "slice_id", "expires", "site_id", "max_nodes", "node_ids",
      "person_ids", "description", "slice_tag_ids" }

\* Slice.__init__ reads every key with info[key]: a missing key raises KeyError.
SliceKeysPresent(info) == SLICE_ATTRIBS \subseteq DOMAIN info

\* Slice.__init__: the fields the operations read; expires becomes an instant.
Slice(info) ==
    [ slice_id  |-> info["slice_id"],
      expires   |-> utcfromtimestamp(info["expires"]),
      max_nodes |-> info["max_nodes"],
      nodes     |-> info["node_ids"] ]

\* The value standing for "no slice" where an operation raised.
NoSlice == [ slice_id |-> 0, expires |-> 0, max_nodes |-> 0, nodes |-> <<>> ]

\* Slice.can_renew(), evaluated when dt.today() is today.
can_renew(s, today) ==
    (renew_upto(today) - s.expires) >= RENEWAL_RESOL * TicksPerSec

\* to_defdict(info)[key]: None for a missing key.
to_defdict(info, key) == IF key \in DOMAIN info THEN Some(info[key]) ELSE None

\* Python truth of an optional number: None and 0 are false.
Truthy(opt) == opt # None /\ opt[1] # 0

\* Node.__init__: last_seen is converted to an instant only when it is truthy;
\* otherwise it stays what the record held (None, or the number 0).
Node(info) ==
    LET last == to_defdict(info, "last_contact")
    IN  [ node_id   |-> to_defdict(info, "node_id"),
          site      |-> to_defdict(info, "site_id"),
          last_seen |->
              IF Truthy(last)
              THEN [ kind |-> "datetime", val |-> utcfromtimestamp(last[1]) ]
              ELSE IF last = None
                   THEN [ kind |-> "None", val |-> 0 ]
                   ELSE [ kind |-> "number", val |-> last[1] ] ]

\* Python truth of Node.last_seen: an instant is always true.
SeenTruthy(ls) ==
    \/ ls.kind = "datetime"
    \/ ls.kind = "number" /\ ls.val # 0

\* Node.was_seen_after(ts), as the truth value of what it returns.
was_seen_after(n, ts) == SeenTruthy(n.last_seen) /\ n.last_seen.val >= ts

\* ------------------------------------------------------ remote service
\* The record GetSlices returns for the slice the service holds.
SliceRecord(rem) ==
    [ name |-> "slice", slice_id |-> 1, expires |-> rem.expires, site_id |-> 1,
      max_nodes |-> rem.max_nodes, node_ids |-> rem.node_ids,
      person_ids |-> <<>>, description |-> "", slice_tag_ids |-> <<>> ]

\* A record that lacks a key Slice.__init__ reads.
ShortRecord(rem) ==
    [ k \in SLICE_ATTRIBS \ {"max_nodes"} |-> SliceRecord(rem)[k] ]

\* How a GetSlices call can be answered: a fault, or count records, the
\* first of them possibly short of a key.
GetShapes ==
    [ fault : {0, 1}, count : 0..MaxMatches, short : {FALSE} ]
      \cup { [ fault |-> 0, count |-> 1, short |-> TRUE ] }

\* self._api.GetSlices(auth, [ident]) answered in shape g.
GetSlices(rem, g) ==
    [ i \in 1..g.count |->
        IF g.short /\ i = 1 THEN ShortRecord(rem) ELSE SliceRecord(rem) ]

\* How an UpdateSlice or AuthCheck call can be answered: a fault with its
\* code, or an integer result.
IntReplies == [ fault : {0}, value : 0..2 ] \cup [ fault : {AUTH_FAULT, 1}, value : {0} ]

\* self._api.UpdateSlice(auth, sid, patch) answered u: the service applies the
\* patch exactly when it answers 1.
UpdateSlice(rem, patch, u) ==
    IF u.fault = 0 /\ u.value = 1
    THEN [ expires   |-> IF "expires" \in DOMAIN patch
                         THEN patch["expires"] ELSE rem.expires,
           max_nodes |-> IF "max_nodes" \in DOMAIN patch
                         THEN patch["max_nodes"] ELSE rem.max_nodes,
           node_ids  |-> IF "nodes" \in DOMAIN patch
                         THEN patch["nodes"] ELSE rem.node_ids ]
    ELSE rem

\* ---------------------------------------------------------- RPC client
\* An operation's outcome: what it returned or raised, the remote calls it
\* issued in order, and the state it left the service in.
Raise(msg, issued, rem) ==
    [ ok |-> FALSE, val |-> NoSlice, err |-> msg, calls |-> issued, remote |-> rem ]
Return(s, issued, rem) ==
    [ ok |-> TRUE, val |-> s, err |-> "", calls |-> issued, remote |-> rem ]

\* An outcome with the calls issued before it put in front.
After(issued, out) == [ out EXCEPT !.calls = issued \o out.calls ]

\* PLC.check_auth: code 103 and every other fault become a ValueError; the
\* integer result is compared with 1 and returned.
check_auth(rem, a) ==
    IF a.fault = AUTH_FAULT
    THEN Raise("Authentication failed!", <<"AuthCheck">>, rem)
    ELSE IF a.fault # 0
         THEN Raise("faultString", <<"AuthCheck">>, rem)
         ELSE Return(NoSlice, <<"AuthCheck">>, rem)

\* get_slice without its "more than one" check: the first record is taken.
get_slice_First(rem, g) ==
    LET slices == GetSlices(rem, g)
    IN  IF g.fault # 0
        THEN Raise("rpc.Fault", <<"GetSlices">>, rem)
        ELSE IF slices = <<>>
             THEN Raise("Failed to retrieve slices!", <<"GetSlices">>, rem)
             ELSE IF ~ SliceKeysPresent(slices[1])
                  THEN Raise("KeyError", <<"GetSlices">>, rem)
                  ELSE Return(Slice(slices[1]), <<"GetSlices">>, rem)

\* PLC.get_slice(ident), GetSlices answered in shape g.
get_slice(rem, g) ==
    LET slices == GetSlices(rem, g)
    IN  IF g.fault # 0
        THEN Raise("rpc.Fault", <<"GetSlices">>, rem)
        ELSE IF slices = <<>>
             THEN Raise("Failed to retrieve slices!", <<"GetSlices">>, rem)
             ELSE IF Len(slices) # 1
                  THEN Raise("Retrieved more than one slice!", <<"GetSlices">>, rem)
                  ELSE IF ~ SliceKeysPresent(slices[1])
                       THEN Raise("KeyError", <<"GetSlices">>, rem)
                       ELSE Return(Slice(slices[1]), <<"GetSlices">>, rem)

\* renew_slice testing the truth of the answer instead of comparing it with 1.
renew_slice_Truthy(rem, ts, today, u, g) ==
    LET upto == IF ts = None
                THEN int_to_unix_time(renew_upto(today))
                ELSE int_to_unix_time(ts[1])
        rem2 == UpdateSlice(rem, [ expires |-> upto ], u)
    IN  IF u.fault # 0
        THEN Raise("rpc.Fault", <<"UpdateSlice">>, rem2)
        ELSE IF u.value # 0
             THEN After(<<"UpdateSlice">>, get_slice(rem2, g))
             ELSE Raise("Failed to renew slice!", <<"UpdateSlice">>, rem2)

\* PLC.renew_slice(sid, ts) called when dt.today() is today.
renew_slice(rem, ts, today, u, g) ==
    LET upto == IF ts = None
                THEN int_to_unix_time(renew_upto(today))
                ELSE int_to_unix_time(ts[1])
        rem2 == UpdateSlice(rem, [ expires |-> upto ], u)
    IN  IF u.fault # 0
        THEN Raise("rpc.Fault", <<"UpdateSlice">>, rem2)
        ELSE IF u.value = 1
             THEN After(<<"UpdateSlice">>, get_slice(rem2, g))
             ELSE Raise("Failed to renew slice!", <<"UpdateSlice">>, rem2)

\* PLC.resize_slice(sid, sz).
resize_slice(rem, sz, u, g) ==
    LET rem2 == UpdateSlice(rem, [ max_nodes |-> sz ], u)
    IN  IF sz <= 0
        THEN Raise("Slice size should be positive!", <<>>, rem)
        ELSE IF u.fault # 0
             THEN Raise("rpc.Fault", <<"UpdateSlice">>, rem2)
             ELSE IF 1 = u.value
                  THEN After(<<"UpdateSlice">>, get_slice(rem2, g))
                  ELSE Raise("Failed to resize slice!", <<"UpdateSlice">>, rem2)

\* add_nodes without its check of the node list.
add_nodes_NoGuard(rem, nodes, u, g) ==
    LET rem2 == UpdateSlice(rem, [ nodes |-> nodes ], u)
    IN  IF u.fault # 0
        THEN Raise("rpc.Fault", <<"UpdateSlice">>, rem2)
        ELSE IF 1 = u.value
             THEN After(<<"UpdateSlice">>, get_slice(rem2, g))
             ELSE Raise("Failed to add nodes to the slice!",
                        <<"UpdateSlice">>, rem2)

\* add_nodes submitting the update a second time when it is not acknowledged.
add_nodes_Retry(rem, nodes, u, g) ==
    LET rem2 == UpdateSlice(rem, [ nodes |-> nodes ], u)
    IN  IF nodes = <<>>
        THEN Raise("Node list cannot be empty!", <<>>, rem)
        ELSE IF u.fault # 0
             THEN Raise("rpc.Fault", <<"UpdateSlice">>, rem2)
             ELSE IF 1 = u.value
                  THEN After(<<"UpdateSlice">>, get_slice(rem2, g))
                  ELSE Raise("Failed to add nodes to the slice!",
                             <<"UpdateSlice", "UpdateSlice">>, rem2)

\* PLC.add_nodes(sid, nodes).
add_nodes(rem, nodes, u, g) ==
    LET rem2 == UpdateSlice(rem, [ nodes |-> nodes ], u)
    IN  IF nodes = <<>>
        THEN Raise("Node list cannot be empty!", <<>>, rem)
        ELSE IF u.fault # 0
             THEN Raise("rpc.Fault", <<"UpdateSlice">>, rem2)
             ELSE IF 1 = u.value
                  THEN After(<<"UpdateSlice">>, get_slice(rem2, g))
                  ELSE Raise("Failed to add nodes to the slice!",
                             <<"UpdateSlice">>, rem2)

\* PLC.get_live_nodes(): a Node for each record GetNodes returned.
get_live_nodes(records) == [ i \in 1..Len(records) |-> Node(records[i]) ]

\* -------------------------------------------------------------- inputs
\* A record of a node: a key is there exactly when its value is not None
\* (to_defdict reads a missing key and a None value alike).
NodeRecord(id, seen, site) ==
    [ k \in (IF id # None THEN {"node_id"} ELSE {})
              \cup (IF seen # None THEN {"last_contact"} ELSE {})
              \cup (IF site # None THEN {"site_id"} ELSE {}) |->
        IF k = "node_id" THEN id[1] ELSE IF k = "site_id" THEN site[1] ELSE seen[1] ]

\* The records Node is built from when plc.py is used as a library: any key
\* may be missing (get_live_nodes takes the field list from its caller).
AnyNodeRecords ==
    { NodeRecord(id, seen, site) :
        id \in {None, Some(1)},
        seen \in {None} \cup { Some(t) : t \in 0..MaxTime },
        site \in {None, Some(1)} }

\* The instants was_seen_after is asked about.
Instants == -1..(utcfromtimestamp(MaxTime) + 1)

\* The records GetNodes returns to main for node i: main asks for
\* Node.reqd_fields(), so node_id and site_id are there; last_contact is None
\* for a node never seen, else the epoch or a later second.
MainNodeRecords(i) ==
    { NodeRecord(Some(i), seen, Some(site)) :
        seen \in {None, Some(0), Some(MaxTime)}, site \in {1, 2} }

\* The inventories GetNodes returns to main: node ids are the service's keys,
\* so no two records carry the same one.
Inventories ==
    UNION { { inv \in [1..n -> UNION { MainNodeRecords(i) : i \in 1..n }] :
                \A i \in 1..n : inv[i] \in MainNodeRecords(i) } : n \in 0..MaxNodes }

\* args.nps: any integer argparse accepts; NUM_NPS when not given.
NpsValues == -1..NUM_NPS

\* cutoff = dt.today() - td(days=args.staleness): the epoch, and the instants
\* just before, at and just after the latest contact.
Cutoffs ==
    {UNIX_EPOCH} \cup
    { utcfromtimestamp(MaxTime) + d : d \in {-1, 0, 1} }

\* dt.today() at a renewal.
Todays == 0..MaxSlack

\* One day, in ticks.
Day == RENEWAL_RESOL * TicksPerSec

\* The explicit targets of a renewal, by their distance below the renewal
\* ceiling: next to the ceiling, and around one day below it.
Targets(today) ==
    { renew_upto(today) - d :
        d \in (0..MaxSlack) \cup ((Day - TicksPerSec - MaxSlack)..(Day + MaxSlack)) }

\* The answers to the GetSlices call that follows an update answered u: there
\* is one to choose only when the update was acknowledged.
RefetchShapes(u) ==
    IF u.fault = 0 /\ u.value = 1
    THEN GetShapes
    ELSE { [ fault |-> 0, count |-> 0, short |-> FALSE ] }

\* The node-id lists add_nodes is called with.
NodeLists == { [ i \in 1..n |-> Some(i) ] : n \in 0..MaxNodes }

\* --------------------------------------------------------------- state
VARIABLES
    pc,            \* where the run is
    calls,         \* the remote calls issued so far, in order
    remote,        \* the slice as the remote service holds it
    nps,           \* args.nps
    records,       \* what GetNodes returned
    live_nodes,    \* main: live_nodes
    cutoff,        \* main: cutoff
    active_nodes,  \* main: active_nodes
    site_grps,     \* main: site_grps
    todo,          \* the sites the selection loop has yet to visit
    sel_nodes,     \* main: sel_nodes
    s,             \* main: s
    err,           \* the message main's except clause wrote
    op,            \* the library operation called directly, with its inputs
    out,           \* the outcome of that operation
    node,          \* the Node a direct call built
    seen           \* what was_seen_after said of it

vars == << pc, calls, remote, nps, records, live_nodes, cutoff, active_nodes,
           site_grps, todo, sel_nodes, s, err, op, out, node, seen >>

mainVars == << nps, records, live_nodes, cutoff, active_nodes, site_grps, todo,
               sel_nodes, s, err >>

libVars == << op, out, node, seen >>

NoOp == [ name |-> "none", ts |-> None, today |-> 0, sz |-> 0, nodes |-> <<>>,
          info |-> <<>>, instant |-> 0,
          u |-> [ fault |-> 0, value |-> 0 ],
          g |-> [ fault |-> 0, count |-> 0, short |-> FALSE ] ]

Init ==
    /\ pc = "start"
    /\ calls = <<>>
    /\ remote \in [ expires : {0}, max_nodes : 0..MaxNodes, node_ids : {<<>>} ]
    /\ nps \in NpsValues
    /\ records = <<>>
    /\ live_nodes = <<>>
    /\ cutoff = 0
    /\ active_nodes = <<>>
    /\ site_grps = <<>>
    /\ todo = {}
    /\ sel_nodes = <<>>
    /\ s = NoSlice
    /\ err = ""
    /\ op = NoOp
    /\ out = Return(NoSlice, <<>>, remote)
    /\ node = Node(<<>>)
    /\ seen = FALSE

\* ----------------------------------------------- populate-slice.py main
\* main's except clause: the message is written and the run ends.
Abort(msg) == pc' = "error" /\ err' = msg

\* api = plc.PLC(usr, pwd): __init__ calls check_auth and drops its result.
Construct ==
    /\ pc = "start"
    /\ \E a \in IntReplies :
         LET o == check_auth(remote, a)
         IN  /\ calls' = calls \o o.calls
             /\ IF o.ok THEN pc' = "nodes" /\ err' = err ELSE Abort(o.err)
    /\ UNCHANGED << remote, nps, records, live_nodes, cutoff, active_nodes,
                    site_grps, todo, sel_nodes, s >>
    /\ UNCHANGED libVars

\* live_nodes = api.get_live_nodes()
FetchNodes ==
    /\ pc = "nodes"
    /\ calls' = Append(calls, "GetNodes")
    /\ \/ /\ Abort("rpc.Fault")
          /\ UNCHANGED << records, live_nodes >>
       \/ /\ \E inv \in Inventories :
               /\ records' = inv
               /\ live_nodes' = get_live_nodes(inv)
          /\ pc' = "filter"
          /\ err' = err
    /\ UNCHANGED << remote, nps, cutoff, active_nodes, site_grps, todo,
                    sel_nodes, s >>
    /\ UNCHANGED libVars

\* The grouping with one list shared by every site (defdict(lambda: shared)).
GroupBySite_Shared(nodes) ==
    [ k \in { nodes[i].site : i \in 1..Len(nodes) } |-> nodes ]

\* site_grps[n.site].append(n) for each n of nodes, in order.
GroupBySite(nodes) ==
    [ k \in { nodes[i].site : i \in 1..Len(nodes) } |->
        SelectSeq(nodes, LAMBDA n : n.site = k) ]

\* [n for n in live_nodes if n.was_seen_after(cutoff)]
ActiveNodes(nodes, c) == SelectSeq(nodes, LAMBDA n : was_seen_after(n, c))

\* The cutoff, the active nodes and their grouping by site.
Filter ==
    /\ pc = "filter"
    /\ \E c \in Cutoffs :
         /\ cutoff' = c
         /\ active_nodes' = ActiveNodes(live_nodes, c)
         /\ site_grps' = GroupBySite(ActiveNodes(live_nodes, c))
         /\ todo' = DOMAIN GroupBySite(ActiveNodes(live_nodes, c))
    /\ sel_nodes' = <<>>
    /\ pc' = "select"
    /\ UNCHANGED << calls, remote, nps, records, live_nodes, s, err >>
    /\ UNCHANGED libVars

\* [n.node_id for n in nodes]
NodeIds(nodes) == [ i \in 1..Len(nodes) |-> nodes[i].node_id ]

\* What one pass of the loop over site_grps adds to sel_nodes, the group
\* being in the order `nodes` after the shuffle, if there was one.
Selected(nodes, cap) == NodeIds(Slice_upto(nodes, cap))

\* One pass of "for site in site_grps": the dict's order is not specified.
SelectSite ==
    /\ pc = "select"
    /\ \E site \in todo :
         \E nodes \in (IF Len(site_grps[site]) > nps
                       THEN Shuffles(site_grps[site])
                       ELSE { site_grps[site] }) :
            /\ site_grps' = [ site_grps EXCEPT ![site] = nodes ]
            /\ sel_nodes' = sel_nodes \o Selected(nodes, nps)
            /\ todo' = todo \ {site}
    /\ UNCHANGED << pc, calls, remote, nps, records, live_nodes, cutoff,
                    active_nodes, s, err >>
    /\ UNCHANGED libVars

\* s = api.get_slice(args.slice_name), once the loop is over.
FetchSlice ==
    /\ pc = "select"
    /\ todo = {}
    /\ \E g \in GetShapes :
         LET o == get_slice(remote, g)
         IN  /\ calls' = calls \o o.calls
             /\ IF o.ok
                THEN pc' = "validate" /\ s' = o.val /\ err' = err
                ELSE Abort(o.err) /\ s' = s
    /\ UNCHANGED << remote, nps, records, live_nodes, cutoff, active_nodes,
                    site_grps, todo, sel_nodes >>
    /\ UNCHANGED libVars

\* The capacity comparison off by one.
TooSmall_OffByOne(slice, reqd_sz) == slice.max_nodes + 1 < reqd_sz

\* s.max_nodes < reqd_sz
TooSmall(slice, reqd_sz) == slice.max_nodes < reqd_sz

\* if s.max_nodes < reqd_sz: raise ValueError
Validate ==
    /\ pc = "validate"
    /\ IF TooSmall(s, Len(sel_nodes))
       THEN Abort("Slice size is smaller than required!")
       ELSE pc' = "add" /\ err' = err
    /\ UNCHANGED << calls, remote, nps, records, live_nodes, cutoff,
                    active_nodes, site_grps, todo, sel_nodes, s >>
    /\ UNCHANGED libVars

\* s = api.add_nodes(s.slice_id, sel_nodes)
AddNodes ==
    /\ pc = "add"
    /\ \E u \in IntReplies :
         \E g \in RefetchShapes(u) :
            LET o == add_nodes(remote, sel_nodes, u, g)
            IN  /\ calls' = calls \o o.calls
                /\ remote' = o.remote
                /\ IF o.ok
                   THEN pc' = "done" /\ s' = o.val /\ err' = err
                   ELSE Abort(o.err) /\ s' = s
    /\ UNCHANGED << nps, records, live_nodes, cutoff, active_nodes, site_grps,
                    todo, sel_nodes >>
    /\ UNCHANGED libVars

\* ------------------------------------------- plc.py called as a library
\* A direct call of a PLC method: its outcome, its calls, what it left.
Called(o, what) ==
    /\ pc = "start"
    /\ pc' = "returned"
    /\ op' = what
    /\ out' = o
    /\ calls' = calls \o o.calls
    /\ remote' = o.remote
    /\ UNCHANGED << node, seen >>
    /\ UNCHANGED mainVars

CallGetSlice ==
    \E g \in GetShapes :
        Called(get_slice(remote, g), [ NoOp EXCEPT !.name = "get_slice", !.g = g ])

CallRenewSlice ==
    \E today \in Todays, u \in IntReplies :
        \E g \in RefetchShapes(u),
           ts \in {None} \cup { Some(t) : t \in Targets(today) } :
            Called(renew_slice(remote, ts, today, u, g),
                   [ NoOp EXCEPT !.name = "renew_slice", !.ts = ts,
                                 !.today = today, !.u = u, !.g = g ])

CallResizeSlice ==
    \E sz \in -1..MaxNodes, u \in IntReplies :
        \E g \in RefetchShapes(u) :
            Called(resize_slice(remote, sz, u, g),
                   [ NoOp EXCEPT !.name = "resize_slice", !.sz = sz,
                                 !.u = u, !.g = g ])

CallAddNodes ==
    \E nodes \in NodeLists, u \in IntReplies :
        \E g \in RefetchShapes(u) :
            Called(add_nodes(remote, nodes, u, g),
                   [ NoOp EXCEPT !.name = "add_nodes", !.nodes = nodes,
                                 !.u = u, !.g = g ])

\* Node(info) built directly and asked was_seen_after(instant).
CallNode ==
    /\ pc = "start"
    /\ pc' = "returned"
    /\ \E info \in AnyNodeRecords, instant \in Instants :
         /\ op' = [ NoOp EXCEPT !.name = "Node", !.info = info, !.instant = instant ]
         /\ node' = Node(info)
         /\ seen' = was_seen_after(Node(info), instant)
    /\ out' = Return(NoSlice, <<>>, remote)
    /\ UNCHANGED << calls, remote >>
    /\ UNCHANGED mainVars

Next ==
    \/ Construct
    \/ FetchNodes
    \/ Filter
    \/ SelectSite
    \/ FetchSlice
    \/ Validate
    \/ AddNodes
    \/ CallGetSlice
    \/ CallRenewSlice
    \/ CallResizeSlice
    \/ CallAddNodes
    \/ CallNode

Spec == Init /\ [][Next]_vars

\* =============================================================== claims
Range(seq) == { seq[i] : i \in 1..Len(seq) }

IsPrefix(a, b) == Len(a) <= Len(b) /\ \A i \in 1..Len(a) : a[i] = b[i]

\* The states of a run of main.
InMain == pc \in {"nodes", "filter", "select", "validate", "add", "done", "error"}

\* The states after a direct call of the operation `name`.
Returned(name) == pc = "returned" /\ op.name = name

\* The remote calls of a run of main, in order.
CallOrder == << "AuthCheck", "GetNodes", "GetSlices", "UpdateSlice", "GetSlices" >>

\* C1: in a run of main, once the slice is fetched and the comparison made, a
\* slice whose max_nodes is smaller than the number of selected ids means the
\* run has failed with the capacity error and UpdateSlice was never called;
\* add_nodes is reached only with the comparison passed.
C1_CapacityBeforeUpdate ==
    /\ InMain /\ s # NoSlice /\ pc # "validate" /\ s.max_nodes < Len(sel_nodes)
         => /\ pc = "error"
            /\ err = "Slice size is smaller than required!"
            /\ "UpdateSlice" \notin Range(calls)
    /\ pc = "add" => s.max_nodes >= Len(sel_nodes)

C1_Witness ==
    /\ pc = "error"
    /\ err = "Slice size is smaller than required!"
    /\ s.max_nodes < Len(sel_nodes)
    /\ calls = SubSeq(CallOrder, 1, 3)

\* C2 (as claimed): each pass of the selection loop takes the whole group when
\* its size is at or below the cap, and exactly cap ids when it is above.
C2_PerSiteCount ==
    [][ pc = "select" /\ todo' # todo =>
          LET site == CHOOSE x \in todo : x \notin todo'
              size == Len(site_grps[site])
          IN  Len(sel_nodes') - Len(sel_nodes) = IF size <= nps THEN size ELSE nps
      ]_vars

\* C3 (as claimed): was_seen_after(cutoff) is true exactly when last_contact
\* is present and not before the cutoff.
C3_SeenIffPresentAndNotBefore ==
    Returned("Node") =>
        ( seen <=> /\ "last_contact" \in DOMAIN op.info
                   /\ utcfromtimestamp(op.info["last_contact"]) >= op.instant )

\* C4: add_nodes called with an empty list raises the invalid-argument error
\* having issued no remote call and left the remote slice as it was; a run of
\* main whose selection is empty never issues UpdateSlice.
C4_EmptyListNoCall ==
    /\ Returned("add_nodes") /\ op.nodes = <<>>
         => /\ ~ out.ok
            /\ out.err = "Node list cannot be empty!"
            /\ out.calls = <<>>
            /\ calls = <<>>
            /\ remote.node_ids = <<>> /\ remote.expires = 0
    /\ InMain /\ pc \in {"done", "error"} /\ sel_nodes = <<>>
         => /\ "UpdateSlice" \notin Range(calls)
            /\ remote.node_ids = <<>> /\ remote.expires = 0
    /\ InMain /\ err = "Node list cannot be empty!"
         => sel_nodes = <<>> /\ calls = SubSeq(CallOrder, 1, 3)

C4_Witness ==
    /\ Returned("add_nodes")
    /\ op.nodes = <<>>
    /\ op.u = [ fault |-> 0, value |-> 1 ]
    /\ ~ out.ok

\* C5: get_slice returns a Slice only when GetSlices answered exactly one
\* record; zero records raise the not-found error, more than one the
\* ambiguous-result error, and either way no Slice is built and GetSlices is
\* the only call made.
C5_ExactlyOneRecord ==
    Returned("get_slice") =>
        /\ out.calls = << "GetSlices" >>
        /\ out.ok => op.g.fault = 0 /\ op.g.count = 1
        /\ op.g.fault = 0 /\ op.g.count = 0
             => ~ out.ok /\ out.err = "Failed to retrieve slices!" /\ out.val = NoSlice
        /\ op.g.fault = 0 /\ op.g.count > 1
             => ~ out.ok /\ out.err = "Retrieved more than one slice!" /\ out.val = NoSlice

C5_Witness ==
    /\ Returned("get_slice")
    /\ op.g.fault = 0
    /\ op.g.count = 2
    /\ ~ out.ok

\* C6 (as claimed): after a renewal that succeeded with a target less than one
\* day below the renewal ceiling, can_renew() of the slice it returned is
\* false at the same instant.
C6_NoRenewalAfterRenewal ==
    LET target == IF op.ts = None THEN renew_upto(op.today) ELSE op.ts[1]
    IN  Returned("renew_slice") /\ out.ok
          /\ target <= renew_upto(op.today)
          /\ renew_upto(op.today) - target < Day
          => ~ can_renew(out.val, op.today)

\* The message each mutating operation raises when its update is not
\* acknowledged.
RejectedMessage(name) ==
    IF name = "renew_slice" THEN "Failed to renew slice!"
    ELSE IF name = "resize_slice" THEN "Failed to resize slice!"
    ELSE "Failed to add nodes to the slice!"

\* C7: a mutating operation whose UpdateSlice call is answered by a value other
\* than 1 raises its update-rejected error with UpdateSlice its only call; when
\* the answer is 1 it calls GetSlices exactly once after it and what it returns
\* is the slice as the service then holds it.
C7_RejectedUpdateNoRefetch ==
    /\ pc = "returned"
    /\ op.name \in {"renew_slice", "resize_slice", "add_nodes"}
    /\ op.name = "resize_slice" => op.sz > 0
    /\ op.name = "add_nodes" => op.nodes # <<>>
    /\ op.u.fault = 0
    => /\ op.u.value # 1
            => /\ ~ out.ok
               /\ out.err = RejectedMessage(op.name)
               /\ out.calls = << "UpdateSlice" >>
       /\ op.u.value = 1
            => /\ out.calls = << "UpdateSlice", "GetSlices" >>
               /\ out.ok => out.val = Slice(SliceRecord(remote))
               /\ ~ out.ok => out.err \in { "rpc.Fault", "KeyError",
                                            "Failed to retrieve slices!",
                                            "Retrieved more than one slice!" }

C7_Witness ==
    /\ Returned("renew_slice")
    /\ op.u = [ fault |-> 0, value |-> 2 ]
    /\ ~ out.ok
    /\ out.calls = << "UpdateSlice" >>

\* C8 (as claimed): a Node built from a record without node_id fails, and no
\* node id main selects is None.
C8_NodeIdRequired ==
    /\ Returned("Node") /\ "node_id" \notin DOMAIN op.info => ~ out.ok
    /\ InMain => \A i \in 1..Len(sel_nodes) : sel_nodes[i] # None

\* How many remote calls a run of main has issued when it ends with message e.
CallsAtError(e) ==
    IF e \in { "Authentication failed!", "faultString" } THEN {1}
    ELSE IF e \in { "Slice size is smaller than required!",
                    "Node list cannot be empty!" } THEN {3}
    ELSE IF e = "Failed to add nodes to the slice!" THEN {4}
    ELSE IF e = "rpc.Fault" THEN 2..5
    ELSE {3, 5}

\* C9: the remote calls of a run of main are a prefix of AuthCheck, GetNodes,
\* GetSlices, UpdateSlice, GetSlices; a run that failed has issued the calls up
\* to the step that failed and no other; and once a run has ended it issues no
\* call.
C9_FixedOrderAbortOnFailure ==
    /\ [] ( InMain =>
              /\ IsPrefix(calls, CallOrder)
              /\ pc = "nodes" => Len(calls) = 1
              /\ pc \in {"filter", "select"} => Len(calls) = 2
              /\ pc \in {"validate", "add"} => Len(calls) = 3
              /\ pc = "done" => Len(calls) = 5
              /\ pc = "error" => Len(calls) \in CallsAtError(err) )
    /\ [][ (pc = "done" \/ pc = "error") => (pc' = pc /\ calls' = calls) ]_vars

C9_Witness ==
    /\ pc = "error"
    /\ err = "Failed to add nodes to the slice!"
    /\ calls = SubSeq(CallOrder, 1, 4)

\* C10: in a run of main the selected ids hold no id twice, each is the
\* node_id of a fetched record whose last_contact is present and not before
\* the cutoff, and every active node is in exactly one site group.
C10_DistinctActiveIds ==
    InMain =>
        /\ \A i, j \in 1..Len(sel_nodes) : i # j => sel_nodes[i] # sel_nodes[j]
        /\ \A i \in 1..Len(sel_nodes) :
             \E k \in 1..Len(records) :
                /\ "node_id" \in DOMAIN records[k]
                /\ sel_nodes[i] = Some(records[k]["node_id"])
                /\ "last_contact" \in DOMAIN records[k]
                /\ utcfromtimestamp(records[k]["last_contact"]) >= cutoff
        /\ \A k \in 1..Len(active_nodes) :
             Cardinality({ site \in DOMAIN site_grps :
                             active_nodes[k] \in Range(site_grps[site]) }) = 1

C10_Witness ==
    /\ pc = "done"
    /\ Len(live_nodes) = 2
    /\ Len(active_nodes) = 1
    /\ Len(sel_nodes) = 1

====
